---- MODULE Spec2Model ----
(***************************************************************************)
(* CloudOps ROI assessment: the ROI engine (roi_calculator.py), the        *)
(* Datadog metrics collector (datadog_collector.py) and the runner         *)
(* pipeline (run_assessment.py).                                           *)
(*                                                                         *)
(* Numbers.  The Python code computes in binary floating point.  Here a    *)
(* number is an exact decimal with four fractional digits, kept as a       *)
(* record [w, f] that stands for w + f/10000 with 0 <= f < 10000 (four     *)
(* digits is the finest place of the price table, 0.0033).  A quotient is  *)
(* kept as an exact fraction [num, den].  Binary rounding of the doubles   *)
(* (for instance 1.5 * 1.2 = 1.7999999999999998) is not modelled.          *)
(***************************************************************************)
EXTENDS Integers, Sequences, FiniteSets, TLC

VARIABLES
    pc,               \* position of the caller / of main()
    config,           \* the configuration document and files main() reads
    backend,          \* what the monitoring backend answers to each query
    calls,            \* the upstream queries issued so far, in order
    metrics,          \* the Metrics Snapshot (a dict: metric name -> number)
    target_services,  \* the list of service tags
    timeline_months,  \* the analysis horizon argument
    roi,              \* the ROI Result, or the exception of the call
    summary,          \* the executive summary (its business-case label)
    exit              \* how main() ended: "none", "ok" or the exception

vars == <<pc, config, backend, calls, metrics, target_services,
          timeline_months, roi, summary, exit>>

----------------------------------------------------------------------------
(* Exact decimals *)

DecScale == 10000

D(w, f) == [w |-> w, f |-> f]
I(n) == D(n, 0)
Zero == I(0)
Norm(w, f) == D(w + (f \div DecScale), f % DecScale)
Add(a, b) == Norm(a.w + b.w, a.f + b.f)
Sub(a, b) == Norm(a.w - b.w, a.f - b.f)
\* (a.w + a.f/S) * (b.w + b.f/S); digits beyond the fourth are cut
Mul(a, b) == Norm(a.w * b.w, a.w * b.f + a.f * b.w + ((a.f * b.f) \div DecScale))
Lt(a, b) == a.w < b.w \/ (a.w = b.w /\ a.f < b.f)
Gt(a, b) == Lt(b, a)

\* a / b for b # 0, kept as an exact fraction
Quot(a, b) == [num |-> a, den |-> b]
\* q > c for a fraction q and a decimal c
QuotGt(q, c) ==
    IF Gt(q.den, Zero) THEN Gt(q.num, Mul(c, q.den))
                       ELSE Lt(q.num, Mul(c, q.den))

Infinity == [inf |-> TRUE]

----------------------------------------------------------------------------
(* Dicts *)

Get(d, key, default) == IF key \in DOMAIN d THEN d[key] ELSE default
Put(d, key, value) == [k \in DOMAIN d \cup {key} |-> IF k = key THEN value ELSE d[k]]
Remove(d, key) == [k \in DOMAIN d \ {key} |-> d[k]]
Update(d, e) == [k \in DOMAIN d \cup DOMAIN e |-> IF k \in DOMAIN e THEN e[k] ELSE d[k]]
EmptyDict == [k \in {} |-> 0]
Contains(list, x) == \E i \in 1..Len(list) : list[i] = x

----------------------------------------------------------------------------
(* ROICalculator *)

aws_pricing ==
    [cloudwatch |-> [metrics |-> D(0, 3000),
                     logs_ingestion |-> D(0, 5000),
                     dashboard |-> D(3, 0)],
     systems_manager |-> [patch_management |-> D(0, 900),
                          inventory |-> D(0, 33),
                          automation |-> D(0, 200)],
     config |-> [configuration_items |-> D(0, 30),
                 rules |-> D(0, 10)]]

calculate_current_costs(m) ==
    LET monitoring_tools == I(Get(m, "monitoring_tool_licenses", 0))
        infrastructure == I(Get(m, "server_costs", 0))
        staff_overhead == Mul(I(Get(m, "ops_staff_cost", 0)), D(0, 3000))
        downtime_cost == I(Get(m, "annual_downtime_hours", 0)
                           * Get(m, "hourly_revenue_impact", 0))
    IN  Add(Add(Add(monitoring_tools, infrastructure), staff_overhead), downtime_cost)

cloudwatch_cost(m) ==
    LET metrics_count == I(Get(m, "total_metrics", 100))
        log_volume_gb == I(Get(m, "log_volume_gb_monthly", 50))
        dashboards == I(Get(m, "dashboards", 10))
    IN  Add(Add(Mul(Mul(metrics_count, aws_pricing.cloudwatch.metrics), I(12)),
                Mul(Mul(log_volume_gb, aws_pricing.cloudwatch.logs_ingestion), I(12))),
            Mul(Mul(dashboards, aws_pricing.cloudwatch.dashboard), I(12)))

systems_manager_cost(m) ==
    LET instances == I(Get(m, "total_instances", 100))
        automations == I(Get(m, "monthly_automations", 50))
    IN  Add(Add(Mul(Mul(instances, aws_pricing.systems_manager.patch_management), I(12)),
                Mul(Mul(instances, aws_pricing.systems_manager.inventory), I(12))),
            Mul(Mul(automations, aws_pricing.systems_manager.automation), I(12)))

config_cost(m) ==
    LET config_items == I(Get(m, "configuration_items", 500))
        rule_evaluations == I(Get(m, "compliance_checks_monthly", 1000))
    IN  Add(Mul(Mul(config_items, aws_pricing.config.configuration_items), I(12)),
            Mul(Mul(rule_evaluations, aws_pricing.config.rules), I(12)))

\* variant: an elif chain, only the first selected service is priced
calculate_aws_costs_elif(m, services) ==
    IF Contains(services, "cloudwatch") THEN cloudwatch_cost(m)
    ELSE IF Contains(services, "systems_manager") THEN systems_manager_cost(m)
    ELSE IF Contains(services, "config") THEN config_cost(m)
    ELSE Zero

calculate_aws_costs(m, services) ==
    LET c1 == IF Contains(services, "cloudwatch")
              THEN Add(Zero, cloudwatch_cost(m)) ELSE Zero
        c2 == IF Contains(services, "systems_manager")
              THEN Add(c1, systems_manager_cost(m)) ELSE c1
        c3 == IF Contains(services, "config")
              THEN Add(c2, config_cost(m)) ELSE c2
    IN  c3

\* variant: the projected MTTR taken as 60% of the current one
calculate_operational_savings_slow(m) ==
    LET current_mttr == I(Get(m, "mean_time_to_resolution_hours", 4))
        projected_mttr == Mul(current_mttr, D(0, 6000))
    IN  Mul(Mul(Mul(I(Get(m, "monthly_incidents", 20)), Sub(current_mttr, projected_mttr)),
                I(Get(m, "engineer_hourly_cost", 100))), I(12))

calculate_operational_savings(m) ==
    LET current_mttr == I(Get(m, "mean_time_to_resolution_hours", 4))
        projected_mttr == Mul(current_mttr, D(0, 4000))
        incident_frequency == I(Get(m, "monthly_incidents", 20))
        avg_engineer_cost_per_hour == I(Get(m, "engineer_hourly_cost", 100))
        monthly_savings == Mul(Mul(incident_frequency, Sub(current_mttr, projected_mttr)),
                               avg_engineer_cost_per_hour)
    IN  Mul(monthly_savings, I(12))

calculate_risk_mitigation(m) ==
    LET compliance_violations == Get(m, "annual_compliance_violations", 2)
        avg_violation_cost == Get(m, "compliance_violation_cost", 50000)
        compliance_improvement == D(0, 8000)
        security_incidents == Get(m, "annual_security_incidents", 1)
        avg_security_cost == Get(m, "security_incident_cost", 100000)
        security_improvement == D(0, 7000)
    IN  Add(Mul(I(compliance_violations * avg_violation_cost), compliance_improvement),
            Mul(I(security_incidents * avg_security_cost), security_improvement))

base_migration_cost == 50000

\* variant: the factors added, 1.0 + 0.5 + 0.2
complexity_multiplier_additive(m, services) ==
    Add(Add(D(1, 0), IF Get(m, "total_instances", 0) > 500 THEN D(0, 5000) ELSE Zero),
        IF Len(services) > 2 THEN D(0, 2000) ELSE Zero)

\* variant: the distinct tags counted, len(set(services))
complexity_multiplier_distinct(m, services) ==
    LET m1 == IF Get(m, "total_instances", 0) > 500 THEN D(1, 5000) ELSE D(1, 0)
    IN  IF Cardinality({services[i] : i \in 1..Len(services)}) > 2
        THEN Mul(m1, D(1, 2000)) ELSE m1

complexity_multiplier(m, services) ==
    LET m0 == D(1, 0)
        m1 == IF Get(m, "total_instances", 0) > 500 THEN Mul(m0, D(1, 5000)) ELSE m0
        m2 == IF Len(services) > 2 THEN Mul(m1, D(1, 2000)) ELSE m1
    IN  m2

calculate_migration_costs(m, services) ==
    LET training_cost == I(Get(m, "ops_team_size", 5) * 2000)
    IN  Add(Mul(I(base_migration_cost), complexity_multiplier(m, services)),
            training_cost)

\* variant: the savings scaled by the horizon
three_year_multiplier_horizon(timeline) == timeline \div 12

\* line 70: annual_savings * 3, whatever the horizon
three_year_multiplier(timeline) == 3

\* variant: the guard taken as annual_savings >= 0
break_even_nonnegative(migration_cost, annual_savings) ==
    IF ~Lt(annual_savings, Zero)
    THEN Quot(Mul(migration_cost, I(12)), annual_savings)
    ELSE Infinity

break_even(migration_cost, annual_savings) ==
    \* migration_cost / (annual_savings / 12) = 12 * migration_cost / annual_savings
    IF Gt(annual_savings, Zero)
    THEN Quot(Mul(migration_cost, I(12)), annual_savings)
    ELSE Infinity

Raised(error) == [status |-> "raised", error |-> error]

calculate_migration_roi(m, services, timeline) ==
    LET current_annual_cost == calculate_current_costs(m)
        aws_annual_cost == calculate_aws_costs(m, services)
        operational_savings == calculate_operational_savings(m)
        risk_mitigation == calculate_risk_mitigation(m)
        migration_cost == calculate_migration_costs(m, services)
        annual_savings == Add(Add(Sub(current_annual_cost, aws_annual_cost),
                                  operational_savings), risk_mitigation)
        three_year_savings == Mul(annual_savings, I(three_year_multiplier(timeline)))
    IN  IF migration_cost = Zero
        THEN Raised("ZeroDivisionError")
        ELSE [status |-> "ok",
              current_annual_cost |-> current_annual_cost,
              aws_annual_cost |-> aws_annual_cost,
              annual_savings |-> annual_savings,
              three_year_savings |-> three_year_savings,
              migration_cost |-> migration_cost,
              three_year_roi |-> Quot(Sub(three_year_savings, migration_cost),
                                      migration_cost),
              break_even_months |-> break_even(migration_cost, annual_savings),
              operational_savings |-> operational_savings,
              risk_mitigation_value |-> risk_mitigation,
              cost_breakdown |->
                  [infrastructure_savings |-> Sub(current_annual_cost, aws_annual_cost),
                   productivity_gains |-> operational_savings,
                   risk_reduction |-> risk_mitigation]]

\* variant: the thresholds taken as >= 1.0 and >= 0.3
generate_executive_summary_inclusive(roi_data) ==
    LET q == roi_data.three_year_roi
        AtLeast(c) == IF Gt(q.den, Zero) THEN ~Lt(q.num, Mul(c, q.den))
                                         ELSE ~Gt(q.num, Mul(c, q.den))
    IN  [business_case |->
            IF AtLeast(D(1, 0)) THEN "STRONG"
            ELSE IF AtLeast(D(0, 3000)) THEN "MODERATE"
            ELSE "WEAK"]

\* the summary text, reduced to its business-case label
generate_executive_summary(roi_data) ==
    [business_case |->
        IF QuotGt(roi_data.three_year_roi, D(1, 0)) THEN "STRONG"
        ELSE IF QuotGt(roi_data.three_year_roi, D(0, 3000)) THEN "MODERATE"
        ELSE "WEAK"]

----------------------------------------------------------------------------
(* Inputs of the ROI engine *)

MaxServices == 3

\* the three recognized tags and one tag the engine does not know
ServiceTags == {"cloudwatch", "systems_manager", "config", "guardduty"}

ServiceLists == UNION {[1..n -> ServiceTags] : n \in 0..MaxServices}

Timelines == {12, 36}

MetricNames ==
    {"monitoring_tool_licenses", "server_costs", "ops_staff_cost",
     "annual_downtime_hours", "hourly_revenue_impact", "total_metrics",
     "log_volume_gb_monthly", "dashboards", "total_instances",
     "monthly_automations", "configuration_items", "compliance_checks_monthly",
     "mean_time_to_resolution_hours", "monthly_incidents", "engineer_hourly_cost",
     "annual_compliance_violations", "compliance_violation_cost",
     "annual_security_incidents", "security_incident_cost", "ops_team_size"}

\* the end-to-end snapshot
ScenarioSnapshot ==
    [total_instances |-> 100, monitoring_tool_licenses |-> 27600,
     ops_staff_cost |-> 120000, annual_downtime_hours |-> 48,
     hourly_revenue_impact |-> 10000, monthly_incidents |-> 20,
     mean_time_to_resolution_hours |-> 4, engineer_hourly_cost |-> 100,
     annual_compliance_violations |-> 2, compliance_violation_cost |-> 50000,
     annual_security_incidents |-> 1, security_incident_cost |-> 100000,
     ops_team_size |-> 5]

\* a snapshot with nothing to save: no incidents, violations or current cost
IdleSnapshot ==
    [monthly_incidents |-> 0, annual_compliance_violations |-> 0,
     annual_security_incidents |-> 0]

BaseSnapshots == {EmptyDict, ScenarioSnapshot, IdleSnapshot}

\* the values tried for one metric: zero, negative ones, and the values at
\* which the engine's comparisons and quotients change
MetricValues(name) ==
    CASE name = "total_instances" -> {0, 500, 501, 600}
      [] name = "ops_team_size" -> {-30, -25, 0, 1}
      [] name = "server_costs" ->
            {-1000000, -751200, -207600, -181600, -167600, 1020}
      [] OTHER -> {-1, 0}

\* a snapshot, and the snapshot with one field dropped or one of names set
Variants(b, names) ==
    {b} \cup {Remove(b, k) : k \in DOMAIN b}
        \cup UNION {{Put(b, k, v) : v \in MetricValues(k)} : k \in names}

Snapshots ==
    Variants(EmptyDict, MetricNames)
        \cup Variants(ScenarioSnapshot, MetricNames)
        \cup Variants(IdleSnapshot, {"ops_team_size", "server_costs", "total_instances"})

NoConfig == [loaded |-> FALSE]
NoBackend == [hosts |-> "unused"]
NoResult == [status |-> "none"]
NoSummary == [business_case |-> "none"]

----------------------------------------------------------------------------
(* The ROI engine called on its own *)

Init ==
    /\ pc = "input"
    /\ config = NoConfig
    /\ backend = NoBackend
    /\ calls = << >>
    /\ metrics \in Snapshots
    /\ target_services \in ServiceLists
    /\ timeline_months \in Timelines
    /\ roi = NoResult
    /\ summary = NoSummary
    /\ exit = "none"

Calculate ==
    /\ pc = "input"
    /\ roi' = calculate_migration_roi(metrics, target_services, timeline_months)
    /\ pc' = IF roi'.status = "ok" THEN "returned" ELSE "raised"
    /\ UNCHANGED <<config, backend, calls, metrics, target_services,
                   timeline_months, summary, exit>>

Summarize ==
    /\ pc = "returned"
    /\ summary' = generate_executive_summary(roi)
    /\ pc' = "summarized"
    /\ UNCHANGED <<config, backend, calls, metrics, target_services,
                   timeline_months, roi, exit>>

Next == Calculate \/ Summarize

Spec == Init /\ [][Next]_vars

----------------------------------------------------------------------------
(* DatadogCollector *)

MaxPoints == 2

\* error rates of a point list, in thousandths
ErrorRates == {10, 50, 90}
incident_threshold == 50

PointLists == UNION {[1..n -> ErrorRates] : n \in 0..MaxPoints}

\* what the backend answers: the host search fails or finds host_count hosts,
\* the error-rate query fails or returns no series or one series of points,
\* the CPU and memory queries fail or answer
Backends ==
    [hosts_ok : BOOLEAN, host_count : {0, 100, 600},
     errors_ok : BOOLEAN, series : {<< >>} \cup {<<pl>> : pl \in PointLists},
     cpu_ok : BOOLEAN, mem_ok : BOOLEAN]

RECURSIVE CountAbove(_, _)
CountAbove(points, threshold) ==
    IF points = << >> THEN 0
    ELSE (IF Head(points) > threshold THEN 1 ELSE 0) + CountAbove(Tail(points), threshold)

Max(a, b) == IF a > b THEN a ELSE b

get_incident_data(b) ==
    IF b.errors_ok
    THEN LET incidents == IF b.series # << >>
                          THEN CountAbove(b.series[1], incident_threshold)
                          ELSE 24
             avg_incident_duration == 2
             total_downtime == incidents * avg_incident_duration
         IN  [monthly_incidents |-> incidents \div 12,
              annual_downtime_hours |-> total_downtime,
              mean_time_to_resolution_hours |-> 4,
              hourly_revenue_impact |-> 10000]
    ELSE [monthly_incidents |-> 20,
          annual_downtime_hours |-> 48,
          mean_time_to_resolution_hours |-> 4,
          hourly_revenue_impact |-> 10000]

\* the queries get_performance_metrics issues: memory only after CPU answered
performance_queries(b) == IF b.cpu_ok THEN <<"cpu", "memory">> ELSE <<"cpu">>

get_performance_metrics(b) ==
    IF b.cpu_ok /\ b.mem_ok
    THEN [total_metrics |-> 150, avg_cpu_utilization |-> 65,
          avg_memory_utilization |-> 70, dashboards |-> 15]
    ELSE [total_metrics |-> 150, avg_cpu_utilization |-> 65,
          avg_memory_utilization |-> 70, dashboards |-> 15]

\* 100 * 1.2 and its thirtieth are whole numbers
get_log_metrics ==
    LET host_count == 100
        log_volume_gb == Mul(I(host_count), D(1, 2000)).w
    IN  [log_volume_gb_monthly |-> log_volume_gb,
         log_retention_days |-> 30,
         log_ingestion_rate_gb_day |-> log_volume_gb \div 30]

\* the call's outcome: the exception it lets through, or the snapshot; and
\* the upstream queries it issued
collect_infrastructure_metrics(b, dates) ==
    IF dates = "malformed"
    THEN [status |-> "raised", error |-> "ValueError: time data",
          metrics |-> EmptyDict, calls |-> << >>]
    ELSE IF ~b.hosts_ok
    THEN [status |-> "raised", error |-> "Exception: host search",
          metrics |-> EmptyDict, calls |-> <<"hosts">>]
    ELSE LET m1 == [total_instances |-> b.host_count,
                    monitoring_tool_licenses |-> b.host_count * 23 * 12]
             m2 == Update(m1, get_incident_data(b))
             m3 == Update(m2, get_performance_metrics(b))
             m4 == Update(m3, get_log_metrics)
             m5 == Update(m4, [ops_staff_cost |-> 120000,
                               engineer_hourly_cost |-> 100,
                               ops_team_size |-> Max(1, b.host_count \div 100)])
         IN  [status |-> "ok", error |-> "none", metrics |-> m5,
              calls |-> <<"hosts", "errors">> \o performance_queries(b)]

----------------------------------------------------------------------------
(* run_assessment.main *)

Configs ==
    [readable : BOOLEAN,
     data_source_type : {"datadog", "prometheus"},
     dates : {"absent", "malformed", "valid"},
     has_timeline_months : BOOLEAN,
     has_aws_services : BOOLEAN,
     aws_services : {<<"cloudwatch">>, <<"cloudwatch", "systems_manager", "config">>},
     has_cost_models : BOOLEAN]

InitRun ==
    /\ pc = "start"
    /\ config \in Configs
    /\ backend \in Backends
    /\ calls = << >>
    /\ metrics = EmptyDict
    /\ target_services = << >>
    /\ timeline_months = 0
    /\ roi = NoResult
    /\ summary = NoSummary
    /\ exit = "none"

Abort(error) == pc' = "aborted" /\ exit' = error

\* lines 24-28: open and parse the configuration file
LoadConfig ==
    /\ pc = "start"
    /\ IF config.readable
       THEN pc' = "loaded" /\ exit' = exit
       ELSE Abort("FileNotFoundError: config")
    /\ UNCHANGED <<config, backend, calls, metrics, target_services,
                   timeline_months, roi, summary>>

\* lines 30-37: choose the collector
InitCollector ==
    /\ pc = "loaded"
    /\ IF config.data_source_type = "datadog"
       THEN pc' = "collector" /\ exit' = exit
       ELSE Abort("ValueError: Unsupported data source")
    /\ UNCHANGED <<config, backend, calls, metrics, target_services,
                   timeline_months, roi, summary>>

\* lines 39-44: read the analysis dates, then collect
CollectMetrics ==
    /\ pc = "collector"
    /\ IF config.dates = "absent"
       THEN /\ Abort("KeyError: start_date")
            /\ UNCHANGED <<calls, metrics>>
       ELSE LET c == collect_infrastructure_metrics(backend, config.dates)
            IN  /\ calls' = calls \o c.calls
                /\ IF c.status = "ok"
                   THEN metrics' = c.metrics /\ pc' = "collected" /\ exit' = exit
                   ELSE metrics' = metrics /\ Abort(c.error)
    /\ UNCHANGED <<config, backend, target_services, timeline_months, roi, summary>>

\* lines 46-53: construct the calculator (it opens the cost-model file), read
\* the service list and the horizon, then compute
CalculateROI ==
    /\ pc = "collected"
    /\ IF ~config.has_cost_models
       THEN /\ Abort("FileNotFoundError: cost_models")
            /\ UNCHANGED <<target_services, timeline_months, roi>>
       ELSE IF ~config.has_aws_services
       THEN /\ Abort("KeyError: aws_services")
            /\ UNCHANGED <<target_services, timeline_months, roi>>
       ELSE IF ~config.has_timeline_months
       THEN /\ Abort("KeyError: timeline_months")
            /\ UNCHANGED <<target_services, timeline_months, roi>>
       ELSE /\ target_services' = config.aws_services
            /\ timeline_months' = 36
            /\ roi' = calculate_migration_roi(metrics, target_services', timeline_months')
            /\ IF roi'.status = "ok"
               THEN pc' = "calculated" /\ exit' = exit
               ELSE Abort(roi'.error)
    /\ UNCHANGED <<config, backend, calls, metrics, summary>>

\* lines 55-73: print the summary, write the report, print the findings
GenerateReports ==
    /\ pc = "calculated"
    /\ summary' = generate_executive_summary(roi)
    /\ pc' = "done"
    /\ exit' = "ok"
    /\ UNCHANGED <<config, backend, calls, metrics, target_services,
                   timeline_months, roi>>

NextRun ==
    LoadConfig \/ InitCollector \/ CollectMetrics \/ CalculateROI \/ GenerateReports

SpecRun == InitRun /\ [][NextRun]_vars

----------------------------------------------------------------------------
(* Properties of the ROI engine (checked under Spec) *)

\* the call has just ended / has just returned a result
Called == pc \in {"returned", "raised"}
Returned == pc = "returned"

\* C1: calculate_migration_roi has no error conditions: for every snapshot
\* (any fields present, any numbers, zero and negative ones included), every
\* service list and every timeline the call returns an ROI Result and never
\* raises, in particular not on a division.
CalculateNeverRaises == Called => roi.status = "ok"

\* C2: whenever the computed annual savings is zero or negative,
\* break_even_months of the result is the positive-infinity sentinel (never a
\* negative or undefined number); when annual savings is greater than zero it
\* is migration cost / (annual savings / 12), i.e. 12 * migration cost over
\* annual savings.
BreakEvenSentinel ==
    Returned =>
        IF Gt(roi.annual_savings, Zero)
        THEN /\ roi.break_even_months.num = Mul(I(12), roi.migration_cost)
             /\ roi.break_even_months.den = roi.annual_savings
        ELSE roi.break_even_months = Infinity

BreakEvenSentinelWitness ==
    /\ Returned
    /\ roi.annual_savings = Zero
    /\ roi.break_even_months = Infinity

Recognized(services) ==
    {t \in {"cloudwatch", "systems_manager", "config"} : Contains(services, t)}

AnnualCost(count, monthly_rate) == Mul(Mul(monthly_rate, I(12)), I(count))

ClosedFormCost(m, tag) ==
    CASE tag = "cloudwatch" ->
            Add(AnnualCost(Get(m, "total_metrics", 100), D(0, 3000)),
                Add(AnnualCost(Get(m, "log_volume_gb_monthly", 50), D(0, 5000)),
                    AnnualCost(Get(m, "dashboards", 10), D(3, 0))))
      [] tag = "systems_manager" ->
            Add(AnnualCost(Get(m, "total_instances", 100), D(0, 900)),
                Add(AnnualCost(Get(m, "total_instances", 100), D(0, 33)),
                    AnnualCost(Get(m, "monthly_automations", 50), D(0, 200))))
      [] tag = "config" ->
            Add(AnnualCost(Get(m, "configuration_items", 500), D(0, 30)),
                AnnualCost(Get(m, "compliance_checks_monthly", 1000), D(0, 10)))

RECURSIVE SumCosts(_, _)
SumCosts(m, tags) ==
    IF tags = {} THEN Zero
    ELSE LET t == CHOOSE x \in tags : TRUE
         IN  Add(ClosedFormCost(m, t), SumCosts(m, tags \ {t}))

\* C5: the target-platform annual cost of the result is exactly the sum, over
\* the recognized service tags present in target_services, of that service's
\* closed-form annual cost (monthly rate x 12 x count, with the defaults for
\* absent counts): an unselected service and an unrecognized tag contribute
\* nothing.
AwsCostIsSumOfSelected ==
    Returned => roi.aws_annual_cost = SumCosts(metrics, Recognized(target_services))

AwsCostIsSumOfSelectedWitness ==
    /\ Returned
    /\ target_services = <<"config", "guardduty", "config">>
    /\ metrics = EmptyDict
    /\ roi.aws_annual_cost = I(30)

\* C6: the complexity multiplier composes multiplicatively: 1.0, times 1.5
\* when the instance count is greater than 500, times 1.2 when more than 2
\* target services are given (600 instances and 3 services: 1.8 x 50000 =
\* 90000, not 1.7 x), and migration cost = 50000 x multiplier + team size
\* (default 5) x 2000.
MigrationCostMultiplicative ==
    Returned =>
        LET many == Get(metrics, "total_instances", 0) > 500
            wide == Len(target_services) > 2
            scaled == IF many /\ wide THEN 90000
                      ELSE IF many THEN 75000
                      ELSE IF wide THEN 60000
                      ELSE 50000
        IN  roi.migration_cost = I(scaled + Get(metrics, "ops_team_size", 5) * 2000)

MigrationCostMultiplicativeWitness ==
    /\ Returned
    /\ Get(metrics, "total_instances", 0) = 600
    /\ Len(target_services) = 3
    /\ roi.migration_cost = I(100000)

\* C7: three_year_savings of the result is exactly 3 x annual_savings, and
\* the outcome of the call is the same for every value of timeline_months.
ThreeYearSavingsIgnoreTimeline ==
    Called =>
        /\ roi.status = "ok" =>
              roi.three_year_savings =
                  Add(roi.annual_savings, Add(roi.annual_savings, roi.annual_savings))
        /\ \A t \in Timelines \ {timeline_months} :
              calculate_migration_roi(metrics, target_services, t) = roi

ThreeYearSavingsIgnoreTimelineWitness ==
    /\ Returned
    /\ timeline_months = 12
    /\ roi.annual_savings = D(750180, 0)
    /\ roi.three_year_savings = D(2250540, 0)

\* C8: for the end-to-end snapshot with the metrics-service tag alone and no
\* metric/log/dashboard counts, the result has target-platform annual cost
\* 1020, current annual cost 543600, operational savings 57600, risk
\* mitigation value 150000, annual savings 750180, migration cost 60000 and
\* three-year savings 2250540.
EndToEndScenario ==
    (Called /\ metrics = ScenarioSnapshot /\ target_services = <<"cloudwatch">>) =>
        /\ roi.status = "ok"
        /\ roi.aws_annual_cost = I(1020)
        /\ roi.current_annual_cost = I(543600)
        /\ roi.operational_savings = I(57600)
        /\ roi.risk_mitigation_value = I(150000)
        /\ roi.annual_savings = I(750180)
        /\ roi.migration_cost = I(60000)
        /\ roi.three_year_savings = I(2250540)

EndToEndScenarioWitness ==
    /\ Returned
    /\ metrics = ScenarioSnapshot
    /\ target_services = <<"cloudwatch">>
    /\ roi.annual_savings = I(750180)

\* the three-year ROI ratio of the result against 1.0 and 0.3, from the
\* savings and the cost: (s - c)/c > 1 iff s > 2c, (s - c)/c > 0.3 iff
\* 10 s > 13 c, for c > 0 (and the reverse for c < 0)
RatioAboveOne ==
    IF Gt(roi.migration_cost, Zero)
    THEN Gt(roi.three_year_savings, Mul(I(2), roi.migration_cost))
    ELSE Lt(roi.three_year_savings, Mul(I(2), roi.migration_cost))
RatioAboveThreeTenths ==
    IF Gt(roi.migration_cost, Zero)
    THEN Gt(Mul(I(10), roi.three_year_savings), Mul(I(13), roi.migration_cost))
    ELSE Lt(Mul(I(10), roi.three_year_savings), Mul(I(13), roi.migration_cost))
RatioIsOne == roi.three_year_savings = Mul(I(2), roi.migration_cost)
RatioIsThreeTenths ==
    Mul(I(10), roi.three_year_savings) = Mul(I(13), roi.migration_cost)

\* C9: the business-case label is STRONG when the three-year ROI ratio is
\* > 1.0, otherwise MODERATE when it is > 0.3, otherwise WEAK; a ratio of
\* exactly 1.0 gives MODERATE, a ratio of exactly 0.3 gives WEAK, and every
\* ratio gives exactly one label.
BusinessCaseLabel ==
    pc = "summarized" =>
        /\ summary.business_case =
              IF RatioAboveOne THEN "STRONG"
              ELSE IF RatioAboveThreeTenths THEN "MODERATE"
              ELSE "WEAK"
        /\ RatioIsOne => summary.business_case = "MODERATE"
        /\ RatioIsThreeTenths => summary.business_case = "WEAK"

BusinessCaseLabelWitness ==
    /\ pc = "summarized"
    /\ RatioIsOne
    /\ summary.business_case = "MODERATE"

\* a ratio of exactly 0.3 is reached too
BusinessCaseThreeTenthsReached ==
    /\ pc = "summarized"
    /\ RatioIsThreeTenths
    /\ summary.business_case = "WEAK"

\* the lists one entry longer than target_services with the same recognized
\* tags: a duplicate or an unrecognized tag appended
Padded ==
    {Append(target_services, t) : t \in
        {x \in ServiceTags : Recognized(<<x>>) \subseteq Recognized(target_services)}}

\* C10: migration cost depends on target_services only through the number of
\* entries: the 1.2 factor is applied exactly when the list has more than 2
\* entries, unrecognized and duplicate tags counted, so two lists with the
\* same recognized tags (the same target-platform cost) can give different
\* migration cost, and with it a different three-year ROI (savings not zero)
\* and break-even (savings positive).
MigrationCostCountsEntries ==
    Returned =>
        LET training == I(Get(metrics, "ops_team_size", 5) * 2000)
            unscaled == IF Get(metrics, "total_instances", 0) > 500 THEN 75000 ELSE 50000
        IN  /\ Mul(I(10), Sub(roi.migration_cost, training)) =
                  I(unscaled * (IF Len(target_services) > 2 THEN 12 ELSE 10))
            /\ \A other \in Padded :
                  /\ calculate_aws_costs(metrics, other) = roi.aws_annual_cost
                  /\ (calculate_migration_costs(metrics, other) # roi.migration_cost)
                        <=> (Len(target_services) = 2)
            /\ Len(target_services) = 2 =>
                  \A other \in Padded :
                      LET r == calculate_migration_roi(metrics, other, timeline_months)
                      IN  r.status = "ok" =>
                            /\ r.three_year_savings = roi.three_year_savings
                            /\ roi.three_year_savings # Zero =>
                                  r.three_year_roi.den # roi.three_year_roi.den
                            /\ Gt(roi.annual_savings, Zero) =>
                                  /\ r.break_even_months.den = roi.break_even_months.den
                                  /\ r.break_even_months.num # roi.break_even_months.num

MigrationCostCountsEntriesWitness ==
    /\ Returned
    /\ target_services = <<"config", "config", "guardduty">>
    /\ metrics = EmptyDict
    /\ roi.migration_cost = I(70000)
    /\ calculate_migration_costs(metrics, <<"config", "config">>) = I(60000)
    /\ calculate_aws_costs(metrics, <<"config", "config">>) = roi.aws_annual_cost

----------------------------------------------------------------------------
(* Properties of the pipeline (checked under SpecRun) *)

FailedQueries ==
    {q \in {"hosts", "errors", "cpu", "memory"} :
        /\ Contains(calls, q)
        /\ \/ q = "hosts" /\ ~backend.hosts_ok
           \/ q = "errors" /\ ~backend.errors_ok
           \/ q = "cpu" /\ ~backend.cpu_ok
           \/ q = "memory" /\ ~backend.mem_ok}

SnapshotReturned == "total_instances" \in DOMAIN metrics

\* C3: a collection error never aborts the run: whenever an upstream query
\* made during collect_infrastructure_metrics fails (host search, error-rate
\* query, CPU or memory query), the collector substitutes its defaults and
\* still returns a Metrics Snapshot, so the pipeline goes on to the ROI
\* computation.
CollectionErrorNeverAborts ==
    FailedQueries # {} => SnapshotReturned

\* the failures the collector does recover from: the error-rate, CPU and
\* memory queries
QueryFailureRecovered ==
    (FailedQueries # {} /\ "hosts" \notin FailedQueries) => SnapshotReturned

ConfigurationErrors ==
    {"FileNotFoundError: config", "ValueError: Unsupported data source",
     "KeyError: start_date", "ValueError: time data",
     "FileNotFoundError: cost_models", "KeyError: aws_services",
     "KeyError: timeline_months"}

\* C4: every configuration error (unsupported data-source type, a document
\* missing the analysis dates, the horizon or the target-service list, a
\* missing cost-model file) aborts the run before any metric collection or
\* ROI computation has started: no run reaches the collection step and then
\* fails on configuration.
ConfigErrorsAbortBeforeCollection ==
    exit \in ConfigurationErrors => (calls = << >> /\ ~SnapshotReturned)

====
